---- MODULE Spec2Model ----
(***************************************************************************)
(* WhatsApp auto-replier: the webhook controller (index.js, found after    *)
(* the class in src/services/WhatsAppService.js), the reply generator      *)
(* (LLMService) and the message sender (WhatsAppService).                  *)
(*                                                                         *)
(* JavaScript strings that the code only compares or forwards are TLA+     *)
(* strings; strings the code edits (the sender number, the model's reply)  *)
(* are sequences of one-character strings.                                 *)
(***************************************************************************)
EXTENDS Integers, Sequences, FiniteSets, TLC

\* ---------------------------------------------------------------- bounds
MaxReq == 2        \* webhook calls serviced in one run
MaxIdLen == 2      \* characters in VONAGE_WHATSAPP_NUMBER
MaxReplyLen == 1   \* characters in the model's raw reply
MaxParams == 2     \* template body parameters

VARIABLES
    env,                  \* process.env, read at startup
    proc,                 \* "boot" | "listening" | "exited"
    vonageWhatsAppNumber, \* WhatsAppService.vonageWhatsAppNumber
    systemPrompt,         \* LLMService.systemPrompt
    ai,                   \* LLMService.ai
    isReady,              \* state of the promise LLMService.isReady
    req,                  \* the webhook calls, by arrival number
    call                  \* a direct call of a WhatsAppService method

vars == <<env, proc, vonageWhatsAppNumber, systemPrompt, ai, isReady, req, call>>

\* ------------------------------------------------------ JavaScript values
Undefined == [type |-> "undefined"]
Null == [type |-> "null"]
Num(n) == [type |-> "number", num |-> n]
Str(s) == [type |-> "string", str |-> s]
Obj(f) == [type |-> "object", fields |-> f]
Chars(s) == [type |-> "chars", chars |-> s]   \* a string kept by its characters

\* ToBoolean, as used by `&&`, `if` and `!`
Truthy(v) ==
    CASE v.type = "undefined" -> FALSE
      [] v.type = "null" -> FALSE
      [] v.type = "number" -> v.num # 0
      [] v.type = "string" -> v.str # ""
      [] v.type = "chars" -> Len(v.chars) # 0
      [] OTHER -> TRUE

\* Sequences over S of length at most n
SeqsUpTo(S, n) == UNION {[1..k -> S] : k \in 0..n}

RECURSIVE IndexOfFrom(_, _, _)
IndexOfFrom(s, c, i) ==
    IF i > Len(s) THEN 0
    ELSE IF s[i] = c THEN i
    ELSE IndexOfFrom(s, c, i + 1)

\* String.prototype.replace(c, '') with a string pattern: only the first
\* occurrence of c is removed, wherever it stands.
ReplaceFirst(s, c) ==
    LET i == IndexOfFrom(s, c, 1)
    IN  IF i = 0 THEN s
        ELSE SubSeq(s, 1, i - 1) \o SubSeq(s, i + 1, Len(s))

RECURSIVE TrimStart(_)
TrimStart(s) ==
    IF Len(s) > 0 /\ s[1] = " " THEN TrimStart(Tail(s)) ELSE s

RECURSIVE TrimEnd(_)
TrimEnd(s) ==
    IF Len(s) > 0 /\ s[Len(s)] = " "
    THEN TrimEnd(SubSeq(s, 1, Len(s) - 1))
    ELSE s

\* String.prototype.trim()
Trim(s) == TrimEnd(TrimStart(s))

\* ------------------------------------------------------------ environment
IdAlphabet == {"+", "1"}
Identities == SeqsUpTo(IdAlphabet, MaxIdLen)

\* An environment variable is unset (undefined) or a string
EnvFlag == {Undefined, Str("set")}
Envs ==
    [GEMINI_API_KEY : EnvFlag,
     VONAGE_WHATSAPP_NUMBER : {Undefined} \cup {Chars(i) : i \in Identities},
     VONAGE_API_KEY : EnvFlag,
     VONAGE_API_SECRET : EnvFlag,
     knowledgeBaseFile : {"readable", "missing"}]

\* ------------------------------------------------------------- LLMService
Fallback == <<"A", "p", "o", "l", "o", "g", "i", "e", "s">>

\* _loadKnowledgeBase: the parsed file, or {} when reading or parsing fails
LoadKnowledgeBase(e) ==
    IF e.knowledgeBaseFile = "readable" THEN "cruise_knowledge_base" ELSE "{}"

\* _buildSystemPrompt: the fixed template around the serialized knowledge base
BuildSystemPrompt(kb) == <<"You are Ari", kb>>

\* LLMService constructor
LLMServiceConstructor(e) ==
    IF ~Truthy(e.GEMINI_API_KEY)
    THEN [threw |-> TRUE]
    ELSE [threw |-> FALSE,
          ai |-> Null,
          systemPrompt |-> BuildSystemPrompt(LoadKnowledgeBase(e)),
          isReady |-> "pending"]

\* -------------------------------------------------------- WhatsAppService
\* WhatsAppService constructor: only the sender number is checked; the Auth
\* object is built from whatever VONAGE_API_KEY and VONAGE_API_SECRET hold.
WhatsAppServiceConstructor(e) ==
    IF ~Truthy(e.VONAGE_WHATSAPP_NUMBER)
    THEN [threw |-> TRUE]
    ELSE [threw |-> FALSE,
          vonageWhatsAppNumber |-> e.VONAGE_WHATSAPP_NUMBER.chars,
          auth |-> [apiKey |-> e.VONAGE_API_KEY,
                    apiSecret |-> e.VONAGE_API_SECRET]]

\* sendTextMessage: the payload handed to vonage.messages.send
\* (variant: a global replace, removing every "+")
CleanedFromNumberEvery(number) == SelectSeq(number, LAMBDA x : x # "+")
CleanedFromNumber(number) == ReplaceFirst(number, "+")

TextPayload(number, to, text) ==
    [to |-> to,
     from |-> CleanedFromNumber(number),
     messageType |-> "text",
     text |-> text,
     channel |-> "whatsapp"]

\* sendTemplateMessage: the components array
Arr(items) == [type |-> "array", items |-> items]

\* (variant: body pushed before the header, parameters in reverse)
TemplateComponentsBodyFirst(bodyParameters, mediaUrl) ==
    LET header ==
            IF Truthy(mediaUrl)
            THEN <<[type |-> "header",
                    parameters |-> <<[type |-> "image",
                                      image |-> [url |-> mediaUrl]]>>]>>
            ELSE <<>>
        n == IF Truthy(bodyParameters) THEN Len(bodyParameters.items) ELSE 0
        body ==
            IF n > 0
            THEN <<[type |-> "body",
                    parameters |->
                        [i \in 1..n |->
                            [type |-> "text",
                             text |-> bodyParameters.items[n + 1 - i].value]]]>>
            ELSE <<>>
    IN  body \o header
TemplateComponents(bodyParameters, mediaUrl) ==
    LET header ==
            IF Truthy(mediaUrl)
            THEN <<[type |-> "header",
                    parameters |-> <<[type |-> "image",
                                      image |-> [url |-> mediaUrl]]>>]>>
            ELSE <<>>
        body ==
            IF Truthy(bodyParameters) /\ Len(bodyParameters.items) > 0
            THEN <<[type |-> "body",
                    parameters |->
                        [i \in 1..Len(bodyParameters.items) |->
                            [type |-> "text",
                             text |-> bodyParameters.items[i].value]]]>>
            ELSE <<>>
    IN  header \o body

TemplatePayload(number, to, templateName, templateLanguage, bodyParameters, mediaUrl) ==
    [to |-> to,
     from |-> number,
     channel |-> "whatsapp",
     messageType |-> "template",
     template |-> [name |-> templateName,
                   language |-> [code |-> templateLanguage],
                   components |-> TemplateComponents(bodyParameters, mediaUrl)]]

\* ------------------------------------------------------- webhook payloads
\* req.body as left by express.text: a string that is not JSON, no string at
\* all (an empty request leaves {}), or the text of a JSON value.
Senders == {Str("u1"), Str("u2")}

Message(from, messageType, text, status) ==
    Obj([from |-> from, message_type |-> messageType, text |-> text,
         status |-> status])

Shapes ==
    {<<Str("text"), Str("hi"), Undefined>>,
     <<Str("text"), Str(""), Undefined>>,
     <<Str("text"), Undefined, Undefined>>,
     <<Str("image"), Undefined, Undefined>>,
     <<Str("image"), Str("hi"), Undefined>>,
     <<Undefined, Undefined, Str("delivered")>>,
     <<Undefined, Str("hi"), Undefined>>,
     <<Undefined, Undefined, Undefined>>}

JsonValues ==
    {Null, Num(5)} \cup {Message(f, s[1], s[2], s[3]) : f \in Senders, s \in Shapes}

Bodies ==
    {[syntax |-> "invalid"], [syntax |-> "none"]}
        \cup {[syntax |-> "json", value |-> v] : v \in JsonValues}

\* JSON.parse(req.body): throws unless the body is the text of a JSON value
\* (variant: a parser that never throws)
JSONparseLenient(body) ==
    IF body.syntax = "json"
    THEN [ok |-> TRUE, value |-> body.value]
    ELSE [ok |-> TRUE, value |-> Num(0)]
JSONparse(body) ==
    IF body.syntax = "json"
    THEN [ok |-> TRUE, value |-> body.value]
    ELSE [ok |-> FALSE]

\* message.<field>: a TypeError on null, undefined on a value without it
CanRead(v) == v.type \notin {"null", "undefined"}
Get(v, field) ==
    IF v.type = "object" /\ field \in DOMAIN v.fields
    THEN v.fields[field]
    ELSE Undefined

\* The branch the handler takes (step 3 of the handler)
\* (variant: a payload seen before is dropped as a duplicate)
ClassifyDeduplicating(message) ==
    LET messageType == Get(message, "message_type")
        textContent == Get(message, "text")
        seen == \E q \in DOMAIN req :
                    /\ req[q].pc # "idle"
                    /\ req[q].body.syntax = "json"
                    /\ req[q].body.value = message
    IN  IF seen THEN "duplicate"
        ELSE IF messageType = Str("text") /\ Truthy(textContent) THEN "text"
        ELSE IF Truthy(messageType) THEN "non-text"
        ELSE IF Truthy(Get(message, "status")) THEN "status"
        ELSE "unrecognized"
Classify(message) ==
    LET messageType == Get(message, "message_type")
        textContent == Get(message, "text")
    IN  IF messageType = Str("text") /\ Truthy(textContent) THEN "text"
        ELSE IF Truthy(messageType) THEN "non-text"
        ELSE IF Truthy(Get(message, "status")) THEN "status"
        ELSE "unrecognized"

\* ----------------------------------------------------- generation backend
RawReplies == SeqsUpTo({" ", "a"}, MaxReplyLen)

\* How ai.models.generateContent settles: it raises, or resolves to a
\* response whose .text is a string or is missing
GenerateContentOutcomes ==
    {[kind |-> "raise"], [kind |-> "response", text |-> Undefined]}
        \cup {[kind |-> "response", text |-> Chars(t)] : t \in RawReplies}

\* generateReply after `await this.isReady`: a rejected promise rethrows the
\* initialization error; otherwise the client must be set
\* (variant: the wait sits inside the try, so a failed initialization yields
\* the apology)
GenerateReplyGateSwallows(ready, client) ==
    IF ready = "rejected" \/ ~Truthy(client)
    THEN [kind |-> "returned", text |-> Fallback]
    ELSE [kind |-> "call"]
GenerateReplyGate(ready, client) ==
    IF ready = "rejected"
    THEN [kind |-> "threw", error |-> "initialization failed"]
    ELSE IF ~Truthy(client)
    THEN [kind |-> "threw", error |-> "LLMService is not ready"]
    ELSE [kind |-> "call"]

\* generateReply's try/catch around the backend call and response.text.trim()
\* (variant: the catch rethrows)
GenerateReplyResultPropagates(outcome) ==
    IF outcome.kind = "response" /\ outcome.text.type = "chars"
    THEN [kind |-> "returned", text |-> Trim(outcome.text.chars)]
    ELSE [kind |-> "threw", error |-> "backend error"]
GenerateReplyResult(outcome) ==
    IF outcome.kind = "response" /\ outcome.text.type = "chars"
    THEN [kind |-> "returned", text |-> Trim(outcome.text.chars)]
    ELSE [kind |-> "returned", text |-> Fallback]

\* The generation request generateReply builds
GenerationRequest(userMessage, prompt) ==
    [model |-> "gemini-2.5-flash",
     contents |-> <<[role |-> "user", text |-> userMessage]>>,
     systemInstruction |-> prompt,
     googleSearch |-> TRUE]

\* ------------------------------------------------------------------ state
Requests == 1..MaxReq

IdleRequest ==
    [pc |-> "idle",                 \* idle, awaitReady, awaitGenerate, awaitSend, done, rejected
     body |-> [syntax |-> "none"],  \* req.body
     branch |-> "none",             \* the branch of step 3 taken
     generateReplyCalls |-> 0,      \* calls of llmService.generateReply
     generated |-> <<>>,            \* requests issued to ai.models.generateContent
     backend |-> "none",            \* how the generation backend settled
     reply |-> [kind |-> "none"],   \* how generateReply settled
     sendTextMessageCalls |-> 0,    \* calls of whatsAppService.sendTextMessage
     sent |-> <<>>,                 \* payloads issued to vonage.messages.send
     caught |-> "none",             \* error caught by the handler's try/catch
     res |-> <<>>]                  \* status codes sent on res, in order

IdleCall == [pc |-> "idle"]

InitStartup ==
    /\ env \in Envs
    /\ proc = "boot"
    /\ vonageWhatsAppNumber = <<>>
    /\ systemPrompt = <<>>
    /\ ai = Null
    /\ isReady = "none"
    /\ req = [r \in Requests |-> IdleRequest]
    /\ call = IdleCall

\* The webhook is studied with the messaging credential pair configured and
\* the sender number unset, "+1" or "1+"; SpecStartup and SpecSender cover
\* every environment.
WebhookNumbers == {Undefined, Chars(<<"+", "1">>), Chars(<<"1", "+">>)}

Init ==
    /\ InitStartup
    /\ Truthy(env.VONAGE_API_KEY)
    /\ Truthy(env.VONAGE_API_SECRET)
    /\ env.VONAGE_WHATSAPP_NUMBER \in WebhookNumbers

\* ---------------------------------------------------------------- startup
\* index.js top level: both services are constructed, then app.listen; a
\* constructor that throws ends the process before the route is served.
Startup ==
    /\ proc = "boot"
    /\ LET w == WhatsAppServiceConstructor(env)
           l == IF w.threw THEN w ELSE LLMServiceConstructor(env)
       IN  IF w.threw \/ l.threw
           THEN /\ proc' = "exited"
                /\ UNCHANGED <<vonageWhatsAppNumber, systemPrompt, ai, isReady>>
           ELSE /\ proc' = "listening"
                /\ vonageWhatsAppNumber' = w.vonageWhatsAppNumber
                /\ systemPrompt' = l.systemPrompt
                /\ ai' = l.ai
                /\ isReady' = l.isReady
    /\ UNCHANGED <<env, req, call>>

\* _initializeClient: the dynamic import and the client construction succeed
InitializeClientResolves ==
    /\ proc = "listening"
    /\ isReady = "pending"
    /\ ai' = Obj([apiKey |-> env.GEMINI_API_KEY])
    /\ isReady' = "resolved"
    /\ UNCHANGED <<env, proc, vonageWhatsAppNumber, systemPrompt, req, call>>

\* _initializeClient: the import or the construction throws; the error is
\* logged and rethrown, so the promise rejects and this.ai stays null
InitializeClientRejects ==
    /\ proc = "listening"
    /\ isReady = "pending"
    /\ isReady' = "rejected"
    /\ UNCHANGED <<env, proc, vonageWhatsAppNumber, systemPrompt, ai, req, call>>

\* ---------------------------------------------------------------- handler
\* The handler after generateReply has settled with g: on a value it calls
\* sendTextMessage, which issues the provider call; on a throw the catch
\* block logs and the handler acknowledges.
\* (variant: `from` kept in a variable shared by all activations, so the
\* recipient is the sender of the webhook call that arrived last)
AfterGenerateReplySharedFrom(rec, g) ==
    IF g.kind = "returned"
    THEN LET arrived == {q \in DOMAIN req :
                            /\ req[q].pc # "idle"
                            /\ req[q].body.syntax = "json"
                            /\ req[q].body.value.type = "object"}
             last == CHOOSE q \in arrived : \A x \in arrived : x <= q
         IN  [rec EXCEPT
                !.reply = g,
                !.sendTextMessageCalls = @ + 1,
                !.sent = Append(@, TextPayload(vonageWhatsAppNumber,
                                    Get(req[last].body.value, "from"), g.text)),
                !.pc = "awaitSend"]
    ELSE [rec EXCEPT
            !.reply = g,
            !.caught = g.error,
            !.res = Append(@, 200),
            !.pc = "done"]
\* (variant: the send is issued twice)
AfterGenerateReplyResends(rec, g) ==
    IF g.kind = "returned"
    THEN LET payload == TextPayload(vonageWhatsAppNumber,
                                    Get(rec.body.value, "from"), g.text)
         IN  [rec EXCEPT
                !.reply = g,
                !.sendTextMessageCalls = @ + 2,
                !.sent = @ \o <<payload, payload>>,
                !.pc = "awaitSend"]
    ELSE [rec EXCEPT
            !.reply = g,
            !.caught = g.error,
            !.res = Append(@, 200),
            !.pc = "done"]
AfterGenerateReply(rec, g) ==
    IF g.kind = "returned"
    THEN [rec EXCEPT
            !.reply = g,
            !.sendTextMessageCalls = @ + 1,
            !.sent = Append(@, TextPayload(vonageWhatsAppNumber,
                                           Get(rec.body.value, "from"), g.text)),
            !.pc = "awaitSend"]
    ELSE [rec EXCEPT
            !.reply = g,
            !.caught = g.error,
            !.res = Append(@, 200),
            !.pc = "done"]

\* POST /vonage/inbound up to its first suspension: parse, extract, branch
Inbound(r, body, transport) ==
    /\ proc = "listening"
    /\ req[r].pc = "idle"
    /\ \A q \in Requests : q < r => req[q].pc # "idle"
    /\ LET parsed == JSONparse(body)
           rec == [req[r] EXCEPT !.body = body]
       IN  IF ~parsed.ok
           THEN req' = [req EXCEPT ![r] =
                    [rec EXCEPT !.res = Append(@, 400), !.pc = "done"]]
           ELSE IF ~CanRead(parsed.value)
           THEN \* message.from throws outside any try: the async handler's
                \* promise rejects and the handler never writes to res
                req' = [req EXCEPT ![r] =
                    [rec EXCEPT !.res = transport, !.pc = "rejected"]]
           ELSE LET branch == Classify(parsed.value)
                IN  IF branch = "text"
                    THEN req' = [req EXCEPT ![r] =
                            [rec EXCEPT !.branch = branch,
                                        !.generateReplyCalls = @ + 1,
                                        !.pc = "awaitReady"]]
                    ELSE req' = [req EXCEPT ![r] =
                            [rec EXCEPT !.branch = branch,
                                        !.res = Append(@, 200),
                                        !.pc = "done"]]
    /\ UNCHANGED <<env, proc, vonageWhatsAppNumber, systemPrompt, ai, isReady, call>>

\* generateReply resumes once this.isReady has settled
GenerateReplyResumes(r) ==
    /\ req[r].pc = "awaitReady"
    /\ isReady \in {"resolved", "rejected"}
    /\ LET gate == GenerateReplyGate(isReady, ai)
       IN  IF gate.kind = "call"
           THEN req' = [req EXCEPT ![r] =
                    [@ EXCEPT
                        !.generated = Append(@,
                            GenerationRequest(Get(req[r].body.value, "text"),
                                              systemPrompt)),
                        !.pc = "awaitGenerate"]]
           ELSE req' = [req EXCEPT ![r] = AfterGenerateReply(@, gate)]
    /\ UNCHANGED <<env, proc, vonageWhatsAppNumber, systemPrompt, ai, isReady, call>>

\* The generation backend settles; generateReply returns and the handler
\* goes on to sendTextMessage
GenerateContentSettles(r, outcome) ==
    /\ req[r].pc = "awaitGenerate"
    /\ req' = [req EXCEPT ![r] =
            AfterGenerateReply([@ EXCEPT !.backend = outcome.kind],
                               GenerateReplyResult(outcome))]
    /\ UNCHANGED <<env, proc, vonageWhatsAppNumber, systemPrompt, ai, isReady, call>>

\* vonage.messages.send settles: on success the handler logs, on failure
\* sendTextMessage rethrows and the handler's catch logs; then step 4
SendSettles(r, ok) ==
    /\ req[r].pc = "awaitSend"
    /\ req' = [req EXCEPT ![r] =
            [@ EXCEPT
                !.caught = IF ok THEN @ ELSE "Failed to send WhatsApp message",
                !.res = Append(@, 200),
                !.pc = "done"]]
    /\ UNCHANGED <<env, proc, vonageWhatsAppNumber, systemPrompt, ai, isReady, call>>

\* What the HTTP layer does with a rejected handler promise: nothing (the
\* request is left without a response) or its own 500
RejectedTransport == {<<>>, <<500>>}

Next ==
    \/ Startup
    \/ InitializeClientResolves
    \/ InitializeClientRejects
    \/ \E r \in Requests, b \in Bodies, t \in RejectedTransport : Inbound(r, b, t)
    \/ \E r \in Requests : GenerateReplyResumes(r)
    \/ \E r \in Requests, o \in GenerateContentOutcomes : GenerateContentSettles(r, o)
    \/ \E r \in Requests, ok \in BOOLEAN : SendSettles(r, ok)

Spec == Init /\ [][Next]_vars

\* Process startup alone, over every environment
NextStartup ==
    \/ Startup
    \/ InitializeClientResolves
    \/ InitializeClientRejects

SpecStartup == InitStartup /\ [][NextStartup]_vars

\* ------------------------------------------- WhatsAppService, called directly
Texts == {<<>>, <<"a">>, Fallback}
TemplateValues == {Str("Sohan"), Str("Standard Cruise")}
MediaUrls == {Undefined, Null, Str(""), Str("https://img")}
BodyParameters ==
    {Undefined, Null}
        \cup {Arr([i \in 1..Len(q) |-> [value |-> q[i]]]) :
                q \in SeqsUpTo(TemplateValues, MaxParams)}

\* sendTextMessage(to, text) up to `await this.vonage.messages.send`
SendTextMessage(to, text) ==
    /\ proc = "listening"
    /\ call.pc = "idle"
    /\ call' = [pc |-> "awaitSend",
                method |-> "sendTextMessage",
                issued |-> <<TextPayload(vonageWhatsAppNumber, to, text)>>,
                result |-> "none"]
    /\ UNCHANGED <<env, proc, vonageWhatsAppNumber, systemPrompt, ai, isReady, req>>

\* sendTemplateMessage(...) up to `await this.vonage.messages.send`; a
\* mediaUrl left out takes the default null
SendTemplateMessage(to, templateName, templateLanguage, bodyParameters, mediaUrl) ==
    /\ proc = "listening"
    /\ call.pc = "idle"
    /\ call' = [pc |-> "awaitSend",
                method |-> "sendTemplateMessage",
                bodyParameters |-> bodyParameters,
                mediaUrl |-> mediaUrl,
                issued |-> <<TemplatePayload(vonageWhatsAppNumber, to,
                                templateName, templateLanguage, bodyParameters,
                                IF mediaUrl = Undefined THEN Null ELSE mediaUrl)>>,
                result |-> "none"]
    /\ UNCHANGED <<env, proc, vonageWhatsAppNumber, systemPrompt, ai, isReady, req>>

\* vonage.messages.send settles: the response is returned, or the error is
\* wrapped and rethrown; nothing is sent again
ProviderSettles(ok) ==
    /\ call.pc = "awaitSend"
    /\ call' = [call EXCEPT !.pc = "done",
                            !.result = IF ok THEN "returned" ELSE "threw"]
    /\ UNCHANGED <<env, proc, vonageWhatsAppNumber, systemPrompt, ai, isReady, req>>

NextSender ==
    \/ Startup
    \/ InitializeClientResolves
    \/ InitializeClientRejects
    \/ \E to \in Senders, text \in Texts : SendTextMessage(to, text)
    \/ \E to \in Senders, b \in BodyParameters, m \in MediaUrls :
            SendTemplateMessage(to, "athens_cruise_intro", "en", b, m)
    \/ \E ok \in BOOLEAN : ProviderSettles(ok)

SpecSender == InitStartup /\ [][NextSender]_vars

\* ================================================================= claims
\* Vocabulary of the claims, stated on the inputs and the recorded effects
Arrived(r) == req[r].pc # "idle"
Concluded(r) == req[r].pc \in {"done", "rejected"}
ParsesAsJson(b) == b.syntax = "json"

\* message_type is "text" and text is a non-empty string
TextBody(b) ==
    /\ ParsesAsJson(b)
    /\ b.value.type = "object"
    /\ b.value.fields.message_type = Str("text")
    /\ b.value.fields.text.type = "string"
    /\ b.value.fields.text.str # ""

GenerationCalls(r) == Len(req[r].generated)
SendCalls(r) == Len(req[r].sent)

\* C1 as stated: every concluded text message has had exactly one generation
\* call and exactly one send call and a 200, whatever the generation step did.
C1_AsStated ==
    \A r \in Requests :
        (Concluded(r) /\ TextBody(req[r].body)) =>
            /\ GenerationCalls(r) = 1
            /\ SendCalls(r) = 1
            /\ req[r].res = <<200>>

\* C1 amended: a text message causes exactly one generateReply call and a 200;
\* when client initialization succeeded it causes exactly one generation call
\* and exactly one send call whatever the backend did, and when initialization
\* failed generateReply throws and there is no generation call and no send
\* call. Never more than one of either at any time.
C1_OncePerTextMessage ==
    \A r \in Requests :
        (Arrived(r) /\ TextBody(req[r].body)) =>
            /\ req[r].pc # "rejected"
            /\ req[r].generateReplyCalls = 1
            /\ GenerationCalls(r) <= 1
            /\ SendCalls(r) <= 1
            /\ req[r].sendTextMessageCalls = SendCalls(r)
            /\ req[r].pc = "done" =>
                /\ req[r].res = <<200>>
                /\ isReady \in {"resolved", "rejected"}
                /\ isReady = "resolved" =>
                    (GenerationCalls(r) = 1 /\ SendCalls(r) = 1)
                /\ isReady = "rejected" =>
                    (GenerationCalls(r) = 0 /\ SendCalls(r) = 0)

C1_Witness ==
    \E r \in Requests :
        /\ req[r].pc = "done"
        /\ TextBody(req[r].body)
        /\ req[r].backend = "raise"
        /\ SendCalls(r) = 1

\* C2 as stated: once the body has parsed as JSON, whatever its value, the
\* request is concluded with exactly one 200.
C2_AsStated ==
    \A r \in Requests :
        (Concluded(r) /\ ParsesAsJson(req[r].body)) => req[r].res = <<200>>

\* C3: a body that fails JSON parsing gets 400 and nothing else: no
\* generation call, no send call, never a 200.
C3_ParseFailure ==
    \A r \in Requests :
        (Arrived(r) /\ ~ParsesAsJson(req[r].body)) =>
            /\ req[r].pc = "done"
            /\ req[r].res = <<400>>
            /\ req[r].generateReplyCalls = 0
            /\ GenerationCalls(r) = 0
            /\ req[r].sendTextMessageCalls = 0
            /\ SendCalls(r) = 0

C3_Witness ==
    \E r \in Requests : Arrived(r) /\ req[r].body.syntax = "invalid"

\* C4 as stated: every parsed payload that is not a text message with
\* non-empty text causes no generation call and no send call and gets 200.
C4_AsStated ==
    \A r \in Requests :
        (Concluded(r) /\ ParsesAsJson(req[r].body) /\ ~TextBody(req[r].body)) =>
            /\ GenerationCalls(r) = 0
            /\ SendCalls(r) = 0
            /\ req[r].res = <<200>>

\* C5: when the generation backend raises, generateReply returns the fixed
\* apology, that string (not empty, not an error) is the text of the one send
\* call, and the handler's catch never sees the backend's error.
C5_FallbackOnRaise ==
    \A r \in Requests :
        req[r].backend = "raise" =>
            /\ req[r].reply = [kind |-> "returned", text |-> Fallback]
            /\ SendCalls(r) = 1
            /\ req[r].sent[1].text = Fallback
            /\ req[r].sent[1].text # <<>>
            /\ req[r].caught \in {"none", "Failed to send WhatsApp message"}

C5_Witness ==
    \E r \in Requests : req[r].backend = "raise" /\ req[r].pc = "awaitSend"

\* C6: the components list of sendTemplateMessage. A non-empty mediaUrl puts
\* a header component carrying that image URL first, otherwise there is no
\* header; non-empty bodyParameters put exactly one body component after it
\* whose i-th text is the i-th parameter's value, otherwise there is no body.
HasMedia(m) == m.type = "string" /\ m.str # ""
HasParameters(b) == b.type = "array" /\ Len(b.items) > 0

C6_TemplateComponents ==
    (call.pc # "idle" /\ call.method = "sendTemplateMessage") =>
        LET c == call.issued[1].template.components
            m == call.mediaUrl
            b == call.bodyParameters
            headers == {i \in 1..Len(c) : c[i].type = "header"}
            bodies == {i \in 1..Len(c) : c[i].type = "body"}
        IN  /\ headers \cup bodies = 1..Len(c)
            /\ IF HasMedia(m)
               THEN /\ headers = {1}
                    /\ c[1].parameters =
                            <<[type |-> "image", image |-> [url |-> m]]>>
               ELSE headers = {}
            /\ IF HasParameters(b)
               THEN /\ bodies = {Len(c)}
                    /\ Len(c[Len(c)].parameters) = Len(b.items)
                    /\ \A i \in 1..Len(b.items) :
                            c[Len(c)].parameters[i] =
                                [type |-> "text", text |-> b.items[i].value]
               ELSE bodies = {}

C6_Witness ==
    /\ call.pc # "idle"
    /\ call.method = "sendTemplateMessage"
    /\ HasMedia(call.mediaUrl)
    /\ HasParameters(call.bodyParameters)
    /\ Len(call.bodyParameters.items) = 2
    /\ call.bodyParameters.items[1] # call.bodyParameters.items[2]
    /\ Len(call.issued[1].template.components) = 2

\* C7 as stated: the same text payload delivered twice causes two generation
\* calls and two send calls in total.
SameTextTwice(r1, r2) ==
    /\ r1 # r2
    /\ req[r1].pc = "done"
    /\ req[r2].pc = "done"
    /\ req[r1].body = req[r2].body
    /\ TextBody(req[r1].body)

C7_AsStated ==
    \A r1, r2 \in Requests :
        SameTextTwice(r1, r2) =>
            /\ GenerationCalls(r1) + GenerationCalls(r2) = 2
            /\ SendCalls(r1) + SendCalls(r2) = 2

\* C7 amended: the same text payload delivered twice is handled twice, each
\* delivery as if it were the only one: two generateReply calls; when client
\* initialization succeeded two generation calls with the same request and two
\* send calls to the same recipient, whatever became of the other delivery;
\* when it failed, no generation call and no send call for either.
C7_NoDeduplication ==
    \A r1, r2 \in Requests :
        SameTextTwice(r1, r2) =>
            /\ req[r1].branch = "text" /\ req[r2].branch = "text"
            /\ req[r1].generateReplyCalls = 1 /\ req[r2].generateReplyCalls = 1
            /\ isReady = "resolved" =>
                /\ GenerationCalls(r1) = 1 /\ GenerationCalls(r2) = 1
                /\ req[r1].generated = req[r2].generated
                /\ SendCalls(r1) = 1 /\ SendCalls(r2) = 1
                /\ req[r1].sent[1].to = req[r2].sent[1].to
            /\ isReady # "resolved" =>
                /\ GenerationCalls(r1) + GenerationCalls(r2) = 0
                /\ SendCalls(r1) + SendCalls(r2) = 0

C7_Witness ==
    \E r1, r2 \in Requests :
        /\ SameTextTwice(r1, r2)
        /\ SendCalls(r1) + SendCalls(r2) = 2
        /\ req[r1].caught # "none"
        /\ req[r2].caught = "none"

\* C8 as stated: the process accepts webhook calls only if the AI credential,
\* the sender identity and both halves of the messaging credential pair are
\* configured.
C8_AsStated ==
    proc = "listening" =>
        /\ Truthy(env.GEMINI_API_KEY)
        /\ Truthy(env.VONAGE_WHATSAPP_NUMBER)
        /\ Truthy(env.VONAGE_API_KEY)
        /\ Truthy(env.VONAGE_API_SECRET)

StripLeadingPlus(n) == IF Len(n) > 0 /\ n[1] = "+" THEN Tail(n) ELSE n

IsTextCall == call.pc # "idle" /\ call.method = "sendTextMessage"

C10_AsStated ==
    IsTextCall => call.issued[1].from = StripLeadingPlus(vonageWhatsAppNumber)

\* C10 amended: the `from` of a text send is the configured identity with its
\* first "+" removed, wherever that "+" stands (a leading one included), the
\* other characters kept in order; an identity without "+" is passed as it
\* is. The provider is called exactly once per sendTextMessage invocation,
\* with messageType text and channel whatsapp.
C10_FirstPlusRemoved ==
    IsTextCall =>
        LET n == vonageWhatsAppNumber
            f == call.issued[1].from
            plus == {k \in 1..Len(n) : n[k] = "+"}
        IN  /\ Len(call.issued) = 1
            /\ call.issued[1].messageType = "text"
            /\ call.issued[1].channel = "whatsapp"
            /\ plus = {} => f = n
            /\ plus # {} =>
                LET k == CHOOSE x \in plus : \A y \in plus : x <= y
                IN  /\ Len(f) = Len(n) - 1
                    /\ \A j \in 1..Len(f) :
                            f[j] = IF j < k THEN n[j] ELSE n[j + 1]

C10_Witness ==
    /\ IsTextCall
    /\ call.pc = "done"
    /\ Len(vonageWhatsAppNumber) = 2
    /\ vonageWhatsAppNumber[1] # "+"
    /\ vonageWhatsAppNumber[2] = "+"

\* C11: under every interleaving of webhook calls, a send call is issued only
\* after the same request's generation call has returned; its recipient is
\* that request's own `from` and its text is the string that request's own
\* generateReply returned, so no reply goes to another request's sender; each
\* generation call carries its own request's text and the system instruction
\* built once at startup.
C11_OwnReplyToOwnSender ==
    \A r \in Requests :
        /\ req[r].pc \in {"idle", "awaitReady", "awaitGenerate"} =>
                (SendCalls(r) = 0 /\ req[r].reply.kind = "none")
        /\ \A i \in 1..SendCalls(r) :
            /\ GenerationCalls(r) = 1
            /\ req[r].backend # "none"
            /\ req[r].reply.kind = "returned"
            /\ req[r].sent[i].to = req[r].body.value.fields.from
            /\ req[r].sent[i].text = req[r].reply.text
        /\ \A i \in 1..GenerationCalls(r) :
            /\ req[r].generated[i].contents =
                    <<[role |-> "user", text |-> req[r].body.value.fields.text]>>
            /\ req[r].generated[i].systemInstruction = systemPrompt
            /\ req[r].generated[i].systemInstruction =
                    BuildSystemPrompt(LoadKnowledgeBase(env))

\* Two overlapping calls from different senders, the later one answered
\* first, with different replies
C11_Witness ==
    \E r1, r2 \in Requests :
        /\ r1 < r2
        /\ req[r1].pc = "awaitSend"
        /\ req[r2].pc = "done"
        /\ SendCalls(r2) = 1
        /\ req[r1].sent[1].to # req[r2].sent[1].to
        /\ req[r1].sent[1].text # req[r2].sent[1].text

====
